---- MODULE Spec2Model ----
(***************************************************************************)
(* Model of server/modules/authenticator/MySQLAuth/dbusers.c (MaxScale):   *)
(* the loading of MySQL users from the backend servers into the listener's *)
(* user data (replace_mysql_users, get_users, get_users_from_server) and   *)
(* the authentication of a client against it (validate_mysql_user).        *)
(*                                                                         *)
(* Strings are sequences of one-character strings; the NULL pointer is the *)
(* one-element sequence <<"NULL">>, which no C string equals.              *)
(***************************************************************************)
EXTENDS Integers, Sequences, FiniteSets, TLC

(* ------------------------------ bounds -------------------------------- *)

\* Number of calls of replace_mysql_users in one behaviour.
MaxRefresh == 2

\* Number of servers in service->dbref.
NServers == 2

\* Number of keys added to a users hashtable.
MaxKeys == 1

(* ------------------------------ values -------------------------------- *)

NULL == <<"NULL">>

\* listener->users == NULL, and a USERS pointer that was never set.
NoUsers == 0

\* service->localhost_match_wildcard_host before the first load.
SERVICE_PARAM_UNINIT == -1

EmptyStr == <<>>

Servers == 1..NServers

\* Rows (user, host, db, select_priv, password) a backend can return for the
\* grant query.
RowAlice ==
    [user |-> <<"a">>, host |-> <<"%">>, db |-> NULL,
     select_priv |-> <<"Y">>, password |-> <<"*", "A">>]

RowBob ==
    [user |-> <<"b">>, host |-> <<"1">>, db |-> <<"\\", "d", "1">>,
     select_priv |-> <<"N">>, password |-> <<"B">>]

\* The result sets mysql_store_result can hand to get_users_from_server.
ResultSets == {<<>>, <<RowAlice>>, <<RowBob>>, <<RowAlice, RowBob>>}

\* A grant on the databases d%.
RowCarol ==
    [user |-> <<"c">>, host |-> <<"%">>, db |-> <<"d", "%">>,
     select_priv |-> <<"N">>, password |-> <<"*", "C">>]

\* Result sets of servers that have a grant with a database wildcard.
WildcardResultSets == {<<>>, <<RowCarol>>, <<RowAlice, RowCarol>>}

\* The anonymous user.
RowAnon ==
    [user |-> EmptyStr, host |-> <<"%">>, db |-> NULL,
     select_priv |-> <<"N">>, password |-> NULL]

\* Result sets of servers where the anonymous user comes and goes.
AnonResultSets == {<<>>, <<RowAlice>>, <<RowAlice, RowAnon>>}

\* The results of SHOW DATABASES.
DbLists == {<<>>, <<<<"d", "1">>>>, <<<<"d", "2">>>>, <<<<"d", "1">>, <<"d", "2">>>>}

(* ----------------------------- variables ------------------------------ *)

VARIABLES
    users_from_all,     \* service->users_from_all
    strip_db_esc,       \* service->strip_db_esc
    svc_do_shutdown,    \* service->svc_do_shutdown
    localhost_match_wildcard_host,  \* service->localhost_match_wildcard_host
    server_string,      \* server->server_string is set, per server
    listener_users,     \* listener->users: NoUsers or a USERS object
    lock,               \* listener->lock is held
    freed,              \* the USERS objects passed to users_free
    db_users,           \* rows of the users table behind instance->handle
    db_databases,       \* rows of the databases table behind instance->handle
    pc,                 \* position of the thread in replace_mysql_users
    newusers,           \* replace_mysql_users: newusers
    oldusers,           \* replace_mysql_users: oldusers
    i,                  \* replace_mysql_users: i, the value of get_users
    rval,               \* value returned by the last replace_mysql_users
    server,             \* get_users: server, NServers + 1 for NULL
    total_users,        \* get_users: total_users
    users,              \* get_users_from_server: users
    anon_user,          \* get_users_from_server: anon_user
    result,             \* rows of the grant query not yet fetched
    dbresult,           \* rows of SHOW DATABASES not yet fetched
    refreshes,          \* calls of replace_mysql_users so far
    reader_users,       \* USERS pointer an authenticating thread holds
    reader_value,       \* what its last mysql_users_fetch returned
    outcomes,           \* history: what each server attempt of this call did
    cat_before,         \* history: users and databases when this call began
    had_users,          \* history: listener->users was set when this call began
    loaded,             \* history: users and databases this call inserted
    obs,                \* history: users and databases a query saw during this call
    all_ok,             \* history: every call so far returned a count above 0
    session,            \* MYSQL_session: user, db, auth_token, client_sha1
    dcb_remote,         \* dcb->remote, the address of the client
    scramble,           \* the scramble sent to the client in the handshake
    res,                \* validate_mysql_user: res (ok, output)
    client_hostname,    \* validate_mysql_user: client_hostname
    auth_pc,            \* position of the thread in validate_mysql_user
    auth_rval,          \* validate_mysql_user: rval
    calls,              \* history: the steps validate_mysql_user has taken
    users_data,         \* users->data: the keys of the hashtable, as added
    last_add,           \* history: the last add_mysql_users_with_host_ipv4
    last_cmp,           \* history: the last call of uh_cmpfun
    enable_root,        \* service->enable_root
    version_string,     \* what mysql_get_server_info reports for the servers
    query,              \* get_users_from_server: query, <<>> when not allocated
    grants,             \* the result sets the grant query can have on the servers
    file,               \* the users and databases tables of the persisted database
    saved,              \* history: the tables the last dbusers_save wrote from
    last_transfer,      \* history: the last dbusers_save or dbusers_load
    perm_pc,            \* position of the thread in check_service_permissions
    perm_skip,          \* check_service_permissions returned at its first test
    perm_server,        \* check_service_permissions: server, NServers + 1 for NULL
    perm_rval,          \* check_service_permissions: rval
    perm_checks         \* history: each server checked and what its check returned

loaderVars ==
    <<pc, newusers, oldusers, i, rval, server, total_users, users, anon_user,
      result, dbresult, refreshes>>

serviceVars ==
    <<users_from_all, strip_db_esc, svc_do_shutdown,
      localhost_match_wildcard_host, server_string>>

catalogVars == <<listener_users, lock, freed, db_users, db_databases>>

readerVars == <<reader_users, reader_value>>

historyVars == <<outcomes, cat_before, had_users, loaded, obs, all_ok>>

authVars ==
    <<session, dcb_remote, scramble, res, client_hostname, auth_pc, auth_rval, calls>>

tableVars == <<users_data, last_add, last_cmp>>

queryVars == <<enable_root, version_string, query, grants>>

persistVars == <<file, saved, last_transfer>>

permVars == <<perm_pc, perm_skip, perm_server, perm_rval, perm_checks>>

vars ==
    <<loaderVars, serviceVars, catalogVars, readerVars, historyVars, authVars,
      tableVars, queryVars, persistVars, permVars>>

(* ------------------------- rows of the tables ------------------------- *)

\* strip_escape_chars (utils.c): the string without its backslashes; a NULL
\* pointer is left alone.
RECURSIVE strip_escape_chars(_)
strip_escape_chars(val) ==
    IF val = NULL \/ val = EmptyStr THEN val
    ELSE IF Head(val) = "\\" THEN strip_escape_chars(Tail(val))
    ELSE <<Head(val)>> \o strip_escape_chars(Tail(val))

\* add_mysql_user: the row the INSERT writes. An absent or empty db and an
\* absent or empty password are written as NULL; a leading '*' of the
\* password is dropped.
UserRow(user, host, db, anydb, pw) ==
    [user |-> user,
     host |-> host,
     db |-> IF db # NULL /\ db # EmptyStr THEN db ELSE NULL,
     anydb |-> anydb,
     password |-> IF pw # NULL /\ pw # EmptyStr
                  THEN (IF Head(pw) = "*" THEN Tail(pw) ELSE pw)
                  ELSE NULL]

add_mysql_user(table, user, host, db, anydb, pw) ==
    table \cup {UserRow(user, host, db, anydb, pw)}

add_database(table, db) == table \cup {db}

\* The row get_users_from_server hands to add_mysql_user for a fetched row.
LoadedRow(row) ==
    UserRow(row.user, row.host,
            IF strip_db_esc THEN strip_escape_chars(row.db) ELSE row.db,
            row.select_priv # NULL /\ row.select_priv = <<"Y">>,
            row.password)

Catalog == [users |-> db_users, databases |-> db_databases]

NoCatalog == [users |-> {}, databases |-> {}]

\* No query has looked at the tables during this call.
NoObs == <<>>

(* ------------------------------ lookups ------------------------------- *)

\* SQL LIKE: '%' in the pattern stands for any characters, '_' for one.
RECURSIVE Like(_, _)
Like(str, pattern) ==
    IF pattern = EmptyStr THEN str = EmptyStr
    ELSE IF Head(pattern) = "%"
         THEN Like(str, Tail(pattern)) \/ (str # EmptyStr /\ Like(Tail(str), pattern))
    ELSE /\ str # EmptyStr
         /\ (Head(pattern) = "_" \/ Head(pattern) = Head(str))
         /\ Like(Tail(str), Tail(pattern))

\* mysqlauth_validate_user_query: the rows of the users table for this
\* user whose host pattern the client address matches and which grant the
\* database: any database, no database asked for, or a pattern it matches.
UserQueryRows(table, user, remote, db) ==
    {r \in table :
        /\ r.user = user
        /\ Like(remote, r.host)
        /\ (r.anydb \/ db = EmptyStr \/ (r.db # NULL /\ Like(db, r.db)))}

\* check_database, lines 404-427: no database is asked for, or the
\* databases table has it.
check_database(table, database) ==
    IF database # EmptyStr THEN database \in table ELSE TRUE

\* The requests of the lookups the properties quantify over.
Requests ==
    [user : {<<"a">>, <<"b">>},
     remote : {<<"1">>},
     db : {EmptyStr, <<"d", "1">>, <<"d", "2">>}]

\* validate_mysql_user for a client that sends the right password: a row is
\* found and the database exists.
Admits(catalog, req) ==
    /\ UserQueryRows(catalog.users, req.user, req.remote, req.db) # {}
    /\ check_database(catalog.databases, req.db)

(* ------------------------------- Init --------------------------------- *)

LoaderInit ==
    /\ pc = "idle"
    /\ newusers = NoUsers
    /\ oldusers = NoUsers
    /\ i = 0
    /\ rval = 0
    /\ server = 1
    /\ total_users = -1
    /\ users = 0
    /\ anon_user = FALSE
    /\ result = <<>>
    /\ dbresult = <<>>
    /\ refreshes = 0
    /\ svc_do_shutdown = FALSE
    /\ localhost_match_wildcard_host = SERVICE_PARAM_UNINIT
    /\ server_string = [s \in Servers |-> FALSE]
    /\ listener_users = NoUsers
    /\ lock = FALSE
    /\ freed = {}
    /\ reader_users = NoUsers
    /\ reader_value = "none"
    /\ outcomes = <<>>
    /\ cat_before = NoCatalog
    /\ had_users = FALSE
    /\ loaded = NoCatalog
    /\ obs = NoObs
    /\ all_ok = TRUE

\* mysql_users_alloc, lines 607-635: a hashtable without keys.
TableEmpty ==
    /\ users_data = <<>>
    /\ last_add = <<>>
    /\ last_cmp = <<>>

\* Version strings of servers.
Version55 == <<"5", ".", "5", ".", "4", "0">>

Version57 == <<"5", ".", "7", ".", "1", "7">>

Version101 == <<"1", "0", ".", "1", ".", "2", "1", "-", "M", "a", "r", "i", "a", "D", "B">>

ServerVersions == {Version55, Version57, Version101}

\* A server of version 5.5 and a service without enable_root; no query yet.
QueryIdle ==
    /\ enable_root = FALSE
    /\ version_string = Version55
    /\ query = <<>>
    /\ grants = ResultSets

\* check_service_permissions has not been called.
PermIdle ==
    /\ perm_pc = "idle"
    /\ perm_skip = FALSE
    /\ perm_server = 1
    /\ perm_rval = FALSE
    /\ perm_checks = <<>>

\* No persisted database, and nothing saved or loaded.
PersistIdle ==
    /\ file = NoCatalog
    /\ saved = <<>>
    /\ last_transfer = <<>>

\* No client is being authenticated.
AuthIdle ==
    /\ session = [user |-> EmptyStr, db |-> EmptyStr, auth_token |-> <<>>,
                  client_sha1 |-> <<>>]
    /\ dcb_remote = EmptyStr
    /\ scramble = <<>>
    /\ res = [ok |-> FALSE, output |-> EmptyStr]
    /\ client_hostname = EmptyStr
    /\ auth_pc = "none"
    /\ auth_rval = FALSE
    /\ calls = <<>>

Init ==
    /\ LoaderInit
    /\ PermIdle
    /\ PersistIdle
    /\ QueryIdle
    /\ TableEmpty
    /\ AuthIdle
    /\ users_from_all \in BOOLEAN
    /\ strip_db_esc \in BOOLEAN
    /\ db_users = {}
    /\ db_databases = {}

(* ----------------------- replace_mysql_users -------------------------- *)

\* replace_mysql_users, lines 129-134: mysql_users_alloc gives a new USERS
\* object, or NULL and the call returns -1.
ReplaceStart ==
    /\ pc = "idle"
    /\ refreshes < MaxRefresh
    /\ refreshes' = refreshes + 1
    /\ cat_before' = Catalog
    /\ had_users' = (listener_users # NoUsers)
    /\ loaded' = NoCatalog
    /\ obs' = NoObs
    /\ outcomes' = <<>>
    /\ \/ /\ newusers' = refreshes + 1
          /\ pc' = "acquire"
          /\ rval' = rval
          /\ all_ok' = all_ok
       \/ /\ newusers' = NoUsers
          /\ pc' = "idle"
          /\ rval' = -1
          /\ all_ok' = FALSE
    /\ UNCHANGED <<oldusers, i, server, total_users, users, anon_user, result,
                   dbresult, serviceVars, catalogVars, readerVars, authVars, tableVars, queryVars, persistVars, permVars>>

\* spinlock_acquire(&listener->lock), line 136.
Acquire ==
    /\ pc = "acquire"
    /\ lock = FALSE
    /\ lock' = TRUE
    /\ pc' = "get_users"
    /\ UNCHANGED <<newusers, oldusers, i, rval, server, total_users, users,
                   anon_user, result, dbresult, refreshes, serviceVars,
                   listener_users, freed, db_users, db_databases, readerVars,
                   historyVars, authVars, tableVars, queryVars, persistVars, permVars>>

\* get_users, lines 1956-1973: without the service user or its decrypted
\* password the load is -1; otherwise the loop starts at service->dbref.
GetUsersBegin ==
    /\ pc = "get_users"
    /\ \/ /\ i' = -1
          /\ pc' = "got_users"
          /\ outcomes' = <<[server |-> 0, kind |-> "no credentials", users |-> -1]>>
          /\ UNCHANGED <<server, total_users, authVars, tableVars, queryVars, persistVars, permVars>>
       \/ /\ server' = 1
          /\ total_users' = -1
          /\ pc' = "loop"
          /\ UNCHANGED <<i, outcomes, authVars, tableVars, queryVars, persistVars, permVars>>
    /\ UNCHANGED <<newusers, oldusers, rval, users, anon_user, result, dbresult,
                   refreshes, serviceVars, catalogVars, readerVars, cat_before,
                   had_users, loaded, obs, all_ok, authVars, tableVars, queryVars, persistVars, permVars>>

\* The condition of the for loop, line 1975, and the return of total_users
\* once it is false.
LoopTest ==
    /\ pc = "loop"
    /\ IF ~svc_do_shutdown /\ server <= NServers
       THEN pc' = "connect" /\ i' = i
       ELSE pc' = "got_users" /\ i' = total_users
    /\ UNCHANGED <<newusers, oldusers, rval, server, total_users, users,
                   anon_user, result, dbresult, refreshes, serviceVars,
                   catalogVars, readerVars, historyVars, authVars, tableVars, queryVars, persistVars, permVars>>

\* gw_mysql_init and mxs_mysql_real_connect, lines 1977-1987: a server that
\* cannot be reached is skipped.
Connect ==
    /\ pc = "connect"
    /\ \/ /\ pc' = "loop"
          /\ server' = server + 1
          /\ outcomes' = Append(outcomes, [server |-> server, kind |-> "unreachable", users |-> -1])
       \/ /\ pc' = "version"
          /\ UNCHANGED <<server, outcomes, authVars, tableVars, queryVars, persistVars, permVars>>
    /\ UNCHANGED <<newusers, oldusers, i, rval, total_users, users, anon_user,
                   result, dbresult, refreshes, serviceVars, catalogVars,
                   readerVars, cat_before, had_users, loaded, obs, all_ok, authVars, tableVars, queryVars, persistVars, permVars>>

(* ----------------------- get_users_from_server ------------------------ *)

\* Lines 1863-1870: the version string of a server that has none is set
\* from the connection; when that fails the server's count is -1.
Version ==
    /\ pc = "version"
    /\ IF server_string[server]
       THEN /\ pc' = "query"
            /\ UNCHANGED <<users, server_string, authVars, tableVars, queryVars, persistVars, permVars>>
       ELSE \/ /\ server_string' = [server_string EXCEPT ![server] = TRUE]
               /\ pc' = "query"
               /\ users' = users
            \/ /\ pc' = "after_server"
               /\ users' = -1
               /\ server_string' = server_string
    /\ UNCHANGED <<newusers, oldusers, i, rval, server, total_users, anon_user,
                   result, dbresult, refreshes, users_from_all, strip_db_esc,
                   svc_do_shutdown, localhost_match_wildcard_host, catalogVars,
                   readerVars, historyVars, authVars, tableVars, queryVars, persistVars, permVars>>

\* strstr(haystack, needle) is not NULL.
strstr(haystack, needle) ==
    \E k \in 0..(Len(haystack) - Len(needle)) :
        SubSeq(haystack, k + 1, k + Len(needle)) = needle

\* Lines 38-41: the name of the password column.
MYSQL_PASSWORD == "password"

MYSQL57_PASSWORD == "authentication_string"

\* Lines 43-49: the format of the grant query, a UNION of two SELECTs, with
\* its four %s filled in. The query is the sequence of its pieces.
NEW_LOAD_DBUSERS_QUERY(password1, with_root1, password2, with_root2) ==
    << "SELECT u.user, u.host, d.db, u.select_priv, u.", password1,
       " FROM mysql.user AS u LEFT JOIN mysql.db AS d ON (u.user = d.user AND u.host = d.host) ",
       with_root1,
       " UNION SELECT u.user, u.host, t.db, u.select_priv, u.", password2,
       " FROM mysql.user AS u LEFT JOIN mysql.tables_priv AS t ON (u.user = t.user AND u.host = t.host) ",
       with_root2 >>

\* Line 84: the WHERE clause put after each SELECT.
WithRoot(include_root) ==
    IF include_root THEN "WHERE u.user NOT IN ('root')" ELSE ""

\* get_new_users_query, lines 81-95, when MXS_MALLOC succeeds.
get_new_users_query(server_version, include_root) ==
    LET password == IF strstr(server_version, <<"5", ".", "7", ".">>)
                    THEN MYSQL57_PASSWORD ELSE MYSQL_PASSWORD
        with_root == WithRoot(include_root)
    IN  NEW_LOAD_DBUSERS_QUERY(password, with_root, password, with_root)

\* Lines 1873-1885 and 1909-1915: the grant query is built from the version
\* of the server and service->enable_root. It yields a result set, or
\* nothing (no memory for the query, mysql_query failed, no result) and
\* the query is freed.
Query ==
    /\ pc = "query"
    /\ anon_user' = FALSE
    /\ users' = 0
    /\ \/ /\ pc' = "flag"
          /\ result' = <<>>
          /\ query' = <<>>
       \/ /\ pc' = "rows"
          /\ result' \in grants
          /\ query' = <<get_new_users_query(version_string, enable_root)>>
    /\ UNCHANGED <<newusers, oldusers, i, rval, server, total_users, dbresult,
                   refreshes, serviceVars, catalogVars, readerVars, historyVars,
                   authVars, tableVars, enable_root, version_string,
                   grants, persistVars, permVars>>

\* One turn of the loop of lines 1887-1904: the next row is written to the
\* users table; the loop ends when mysql_fetch_row has no more rows, and
\* the query is freed (line 1909).
FetchRow ==
    /\ pc = "rows"
    /\ IF result = <<>>
       THEN /\ pc' = "flag"
            /\ query' = <<>>
            /\ UNCHANGED <<users, anon_user, result, db_users, loaded>>
       ELSE LET row == Head(result) IN
            /\ db_users' = db_users \cup {LoadedRow(row)}
            /\ loaded' = [loaded EXCEPT !.users = @ \cup {LoadedRow(row)}]
            /\ users' = users + 1
            /\ anon_user' = (anon_user \/ (row.user # NULL /\ row.user = EmptyStr))
            /\ result' = Tail(result)
            /\ pc' = pc
            /\ query' = query
    /\ UNCHANGED <<newusers, oldusers, i, rval, server, total_users, dbresult,
                   refreshes, serviceVars, listener_users, lock, freed,
                   db_databases, readerVars, outcomes, cat_before, had_users,
                   obs, all_ok, authVars, tableVars, enable_root, version_string,
                   grants, persistVars, permVars>>

\* Lines 1917-1921: the parameter is set once, from the first load.
SetLocalhostMatch ==
    /\ pc = "flag"
    /\ localhost_match_wildcard_host' =
           IF localhost_match_wildcard_host = SERVICE_PARAM_UNINIT
           THEN (IF anon_user THEN 0 ELSE 1)
           ELSE localhost_match_wildcard_host
    /\ pc' = "showdb"
    /\ UNCHANGED <<newusers, oldusers, i, rval, server, total_users, users,
                   anon_user, result, dbresult, refreshes, users_from_all,
                   strip_db_esc, svc_do_shutdown, server_string, catalogVars,
                   readerVars, historyVars, authVars, tableVars, queryVars, persistVars, permVars>>

\* Lines 1923-1941: SHOW DATABASES yields a result set or fails.
ShowDatabases ==
    /\ pc = "showdb"
    /\ \/ /\ pc' = "after_server"
          /\ dbresult' = <<>>
       \/ /\ pc' = "dbrows"
          /\ dbresult' \in DbLists
    /\ UNCHANGED <<newusers, oldusers, i, rval, server, total_users, users,
                   anon_user, result, refreshes, serviceVars, catalogVars,
                   readerVars, historyVars, authVars, tableVars, queryVars, persistVars, permVars>>

\* One turn of the loop of lines 1930-1933.
FetchDatabase ==
    /\ pc = "dbrows"
    /\ IF dbresult = <<>>
       THEN /\ pc' = "after_server"
            /\ UNCHANGED <<dbresult, db_databases, loaded, authVars, tableVars, queryVars, persistVars, permVars>>
       ELSE /\ db_databases' = add_database(db_databases, Head(dbresult))
            /\ loaded' = [loaded EXCEPT !.databases = @ \cup {Head(dbresult)}]
            /\ dbresult' = Tail(dbresult)
            /\ pc' = pc
    /\ UNCHANGED <<newusers, oldusers, i, rval, server, total_users, users,
                   anon_user, result, refreshes, serviceVars, listener_users,
                   lock, freed, db_users, readerVars, outcomes, cat_before,
                   had_users, obs, all_ok, authVars, tableVars, queryVars, persistVars, permVars>>

\* The count of the last server kept instead of the largest.
LastUsers(total, count) == count

\* get_users, lines 1993-1996: the largest count of the servers is kept.
TotalUsers(total, count) == IF count > total THEN count ELSE total

\* The loop left only after a server that returned users.
BreakAfterUsers(count) == ~users_from_all /\ count > 0

\* get_users, lines 2000-2003: the loop is left after a server that was
\* connected to, unless users are loaded from all servers.
BreakAfterServer(count) == ~users_from_all

\* get_users, lines 1991-2003, after get_users_from_server has returned.
AfterServer ==
    /\ pc = "after_server"
    /\ total_users' = TotalUsers(total_users, users)
    /\ outcomes' = Append(outcomes,
                          [server |-> server,
                           kind |-> IF users = -1 THEN "version" ELSE "users",
                           users |-> users])
    /\ IF BreakAfterServer(users)
       THEN /\ pc' = "got_users"
            /\ i' = total_users'
            /\ server' = server
       ELSE /\ pc' = "loop"
            /\ i' = i
            /\ server' = server + 1
    /\ UNCHANGED <<newusers, oldusers, rval, users, anon_user, result, dbresult,
                   refreshes, serviceVars, catalogVars, readerVars, cat_before,
                   had_users, loaded, obs, all_ok, authVars, tableVars, queryVars, persistVars, permVars>>

(* ------------------- replace_mysql_users, continued ------------------- *)

\* Lines 141-156 without the spinlock_release of line 154.
LoadFailedKeepsLock ==
    /\ pc = "got_users"
    /\ i <= 0
    /\ IF listener_users # NoUsers
       THEN /\ freed' = freed \cup {newusers}
            /\ listener_users' = listener_users
       ELSE /\ listener_users' = newusers
            /\ freed' = freed
    /\ rval' = i
    /\ pc' = "idle"
    /\ all_ok' = FALSE
    /\ UNCHANGED <<newusers, oldusers, i, server, total_users, users, anon_user,
                   result, dbresult, refreshes, serviceVars, lock, db_users,
                   db_databases, readerVars, outcomes, cat_before,
                   had_users, loaded, obs, authVars, tableVars, queryVars,
                   persistVars, permVars>>

\* Lines 141-156: the load failed. The new table is freed when there is an
\* old one and installed otherwise; the lock is released and i returned.
LoadFailed ==
    /\ pc = "got_users"
    /\ i <= 0
    /\ IF listener_users # NoUsers
       THEN /\ freed' = freed \cup {newusers}
            /\ listener_users' = listener_users
       ELSE /\ listener_users' = newusers
            /\ freed' = freed
    /\ lock' = FALSE
    /\ rval' = i
    /\ pc' = "idle"
    /\ all_ok' = FALSE
    /\ UNCHANGED <<newusers, oldusers, i, server, total_users, users, anon_user,
                   result, dbresult, refreshes, serviceVars, db_users,
                   db_databases, readerVars, outcomes, cat_before,
                   had_users, loaded, obs, authVars, tableVars, queryVars, persistVars, permVars>>

\* Lines 162-163: the new table takes the place of the old one.
Swap ==
    /\ pc = "got_users"
    /\ i > 0
    /\ oldusers' = listener_users
    /\ listener_users' = newusers
    /\ pc' = "release"
    /\ UNCHANGED <<newusers, i, rval, server, total_users, users, anon_user,
                   result, dbresult, refreshes, serviceVars, lock, freed,
                   db_users, db_databases, readerVars, historyVars, authVars, tableVars, queryVars, persistVars, permVars>>

\* spinlock_release(&listener->lock), line 165.
Release ==
    /\ pc = "release"
    /\ lock' = FALSE
    /\ pc' = "free_old"
    /\ UNCHANGED <<newusers, oldusers, i, rval, server, total_users, users,
                   anon_user, result, dbresult, refreshes, serviceVars,
                   listener_users, freed, db_users, db_databases, readerVars,
                   historyVars, authVars, tableVars, queryVars, persistVars, permVars>>

\* Lines 167-173: the old table, if any, is freed and i returned.
FreeOld ==
    /\ pc = "free_old"
    /\ freed' = IF oldusers # NoUsers THEN freed \cup {oldusers} ELSE freed
    /\ rval' = i
    /\ pc' = "idle"
    /\ UNCHANGED <<newusers, oldusers, i, server, total_users, users, anon_user,
                   result, dbresult, refreshes, serviceVars, listener_users,
                   lock, db_users, db_databases, readerVars, historyVars, authVars, tableVars, queryVars, persistVars, permVars>>

(* --------------------------- other threads ---------------------------- *)

\* The service is told to stop: svc_do_shutdown is set by another thread.
Shutdown ==
    /\ ~svc_do_shutdown
    /\ svc_do_shutdown' = TRUE
    /\ UNCHANGED <<loaderVars, users_from_all, strip_db_esc,
                   localhost_match_wildcard_host, server_string, catalogVars,
                   readerVars, historyVars, authVars, tableVars, queryVars, persistVars, permVars>>

\* An authenticating thread takes the listener's users table.
ReaderAcquire ==
    /\ reader_users = NoUsers
    /\ listener_users # NoUsers
    /\ reader_users' = listener_users
    /\ reader_value' = "none"
    /\ UNCHANGED <<loaderVars, serviceVars, catalogVars, historyVars, authVars, tableVars, queryVars, persistVars, permVars>>

\* mysql_users_fetch on the table the thread holds. No key is ever added to
\* a table, so the fetch of a live table finds nothing; the fetch of a freed
\* table reads released memory and may return anything.
mysql_users_fetch(table) ==
    IF table \in freed THEN {"NULL", "garbage"} ELSE {"NULL"}

ReaderFetch ==
    /\ reader_users # NoUsers
    /\ reader_value = "none"
    /\ reader_value' \in mysql_users_fetch(reader_users)
    /\ UNCHANGED <<reader_users, loaderVars, serviceVars, catalogVars, historyVars, authVars, tableVars, queryVars, persistVars, permVars>>

\* The authentication is over; the thread lets go of the table.
ReaderRelease ==
    /\ reader_users # NoUsers
    /\ reader_value # "none"
    /\ reader_users' = NoUsers
    /\ reader_value' = "none"
    /\ UNCHANGED <<loaderVars, serviceVars, catalogVars, historyVars, authVars, tableVars, queryVars, persistVars, permVars>>

\* A query of an authenticating thread (sqlite3_exec in validate_mysql_user)
\* reads the tables while replace_mysql_users is running.
AuthQuery ==
    /\ pc # "idle"
    /\ obs = NoObs
    /\ obs' = <<Catalog>>
    /\ UNCHANGED <<loaderVars, serviceVars, catalogVars, readerVars, outcomes,
                   cat_before, had_users, loaded, all_ok, authVars, tableVars, queryVars, persistVars, permVars>>

Next ==
    \/ ReplaceStart
    \/ Acquire
    \/ GetUsersBegin
    \/ LoopTest
    \/ Connect
    \/ Version
    \/ Query
    \/ FetchRow
    \/ SetLocalhostMatch
    \/ ShowDatabases
    \/ FetchDatabase
    \/ AfterServer
    \/ LoadFailed
    \/ Swap
    \/ Release
    \/ FreeOld
    \/ Shutdown
    \/ ReaderAcquire
    \/ ReaderFetch
    \/ ReaderRelease
    \/ AuthQuery

Spec == Init /\ [][Next]_vars

\* The thread of replace_mysql_users alone, with the shutdown of the service.
NextLoader ==
    \/ ReplaceStart
    \/ Acquire
    \/ GetUsersBegin
    \/ LoopTest
    \/ Connect
    \/ Version
    \/ Query
    \/ FetchRow
    \/ SetLocalhostMatch
    \/ ShowDatabases
    \/ FetchDatabase
    \/ AfterServer
    \/ LoadFailed
    \/ Swap
    \/ Release
    \/ FreeOld
    \/ Shutdown

SpecLoader == Init /\ [][NextLoader]_vars

(* --------------------------- check_password --------------------------- *)

SHA_DIGEST_LENGTH == 20

Digest == 1..SHA_DIGEST_LENGTH

\* Exclusive or of two bytes.
RECURSIVE BitXor(_, _)
BitXor(a, b) ==
    IF a = 0 THEN b
    ELSE IF b = 0 THEN a
    ELSE 2 * BitXor(a \div 2, b \div 2) + ((a + b) % 2)

RECURSIVE Mix(_, _, _)
Mix(input, j, k) ==
    IF j > Len(input) THEN 0
    ELSE (input[j] + j) * (k + 2 * j + 1) + Mix(input, j + 1, k)

\* gw_sha1_str (utils.c): the digest of a byte string. A stand-in for SHA1:
\* a function of every byte and of the length, with 20 bytes of output.
gw_sha1_str(input) ==
    [k \in Digest |-> (Mix(input, 1, k) + 31 * k + 7 * Len(input)) % 256]

\* gw_sha1_2_str (utils.c): the digest of two byte strings, one after the other.
gw_sha1_2_str(in1, in2) == gw_sha1_str(in1 \o in2)

HexDigits ==
    <<"0", "1", "2", "3", "4", "5", "6", "7", "8", "9", "A", "B", "C", "D", "E", "F">>

HexValue(c) == (CHOOSE n \in 1..16 : HexDigits[n] = c) - 1

\* gw_bin2hex (utils.c): two hexadecimal digits for each byte.
RECURSIVE gw_bin2hex(_)
gw_bin2hex(bytes) ==
    IF bytes = <<>> THEN <<>>
    ELSE <<HexDigits[(Head(bytes) \div 16) + 1], HexDigits[(Head(bytes) % 16) + 1]>>
         \o gw_bin2hex(Tail(bytes))

\* gw_hex2bin (utils.c): one byte for each two digits of in, written over
\* the start of out.
gw_hex2bin(out, in) ==
    [k \in 1..Len(out) |->
        IF 2 * k <= Len(in)
        THEN 16 * HexValue(in[2 * k - 1]) + HexValue(in[2 * k])
        ELSE out[k]]

\* gw_str_xor (utils.c): the first len bytes of output are set to the
\* exclusive or of the inputs; the other bytes of output are left alone.
gw_str_xor(output, input1, input2, len) ==
    [k \in 1..Len(output) |->
        IF k <= len THEN BitXor(input1[k], input2[k]) ELSE output[k]]

Zeros == [k \in Digest |-> 0]

\* check_password without the exclusive or: the token itself is taken as
\* the SHA1 of the password.
check_password_token_as_hash(output, token, token_len, scr, uninit) ==
    LET stored_token == IF output # EmptyStr THEN gw_hex2bin(Zeros, output) ELSE Zeros
        step2 == [k \in Digest |-> IF k <= token_len THEN token[k] ELSE uninit[k]]
    IN  [ok |-> gw_sha1_str(step2) = stored_token, phase2_scramble |-> step2]

\* check_password, lines 348-394. step2 is a local array that is never
\* initialised: uninit is what the stack holds there. The result is the
\* value returned and what is copied to phase2_scramble.
check_password(output, token, token_len, scr, uninit) ==
    LET stored_token == IF output # EmptyStr THEN gw_hex2bin(Zeros, output) ELSE Zeros
        step1 == gw_sha1_2_str(scr, stored_token)
        step2 == gw_str_xor(uninit, token, step1, token_len)
        final_step == gw_sha1_str(step2)
    IN  [ok |-> final_step = stored_token, phase2_scramble |-> step2]

(* ------------------------ validate_mysql_user ------------------------- *)

\* Passwords of the accounts, the hash mysql.user holds for a password and
\* the token a client that knows the password sends for a scramble.
Password1 == <<112, 119>>

Password2 == <<120>>

StoredHash(password) == gw_sha1_str(gw_sha1_str(password))

ClientToken(password, scr) ==
    LET step1 == gw_sha1_2_str(scr, StoredHash(password))
    IN  gw_str_xor(Zeros, gw_sha1_str(password), step1, SHA_DIGEST_LENGTH)

Scramble1 == [k \in Digest |-> (7 * k) % 256]

\* The rows of the users table while clients are authenticated: an account
\* for any host and any database, an account of one named host for one
\* database, and an account without a password.
AuthRowAny ==
    UserRow(<<"a">>, <<"%">>, NULL, TRUE, <<"*">> \o gw_bin2hex(StoredHash(Password1)))

AuthRowHost ==
    UserRow(<<"c">>, <<"h">>, <<"d", "1">>, FALSE, gw_bin2hex(StoredHash(Password1)))

AuthRowNoPassword == UserRow(<<"b">>, <<"1">>, NULL, FALSE, NULL)

AuthRows == {AuthRowAny, AuthRowHost, AuthRowNoPassword}

\* The tokens a client sends: none, the token of the right password, the
\* token of another password, and a token whose first byte is the first
\* byte of SHA1(scramble, stored hash).
AuthTokens ==
    {<<>>,
     ClientToken(Password1, Scramble1),
     ClientToken(Password2, Scramble1),
     gw_sha1_2_str(Scramble1, StoredHash(Password1))}

\* The name the resolver has for the address of the client.
ClientName == <<"h">>

\* What the uninitialised client_hostname can hold as a string, and the
\* bytes an uninitialised array can be filled with.
StackStrings == {EmptyStr, <<"h">>, <<"x">>}

StackBytes == {0, 95}

AuthInit ==
    /\ LoaderInit
    /\ PermIdle
    /\ PersistIdle
    /\ QueryIdle
    /\ TableEmpty
    /\ users_from_all = FALSE
    /\ strip_db_esc = FALSE
    /\ db_users \in SUBSET AuthRows
    /\ db_databases \in {{}, {<<"d", "1">>}}
    /\ session \in [user : {<<"a">>, <<"b">>, <<"c">>},
                    db : {EmptyStr, <<"d", "1">>},
                    auth_token : AuthTokens,
                    client_sha1 : {Zeros}]
    /\ dcb_remote = <<"1">>
    /\ scramble = Scramble1
    /\ res = [ok |-> FALSE, output |-> EmptyStr]
    /\ client_hostname = EmptyStr
    /\ auth_pc = "query"
    /\ auth_rval = FALSE
    /\ calls = <<>>

\* auth_cb on the row a query returns (LIMIT 1): the password of one of the
\* matching rows, the empty string for NULL.
QueryResults(rows) ==
    IF rows = {} THEN {[ok |-> FALSE, output |-> EmptyStr]}
    ELSE {[ok |-> TRUE, output |-> IF r.password = NULL THEN EmptyStr ELSE r.password] :
            r \in rows}

notAuth == <<loaderVars, serviceVars, catalogVars, readerVars, historyVars, tableVars, queryVars, persistVars, permVars>>

\* Lines 465-483 without the test of res.ok in line 476.
ValidateQueryThenResolve ==
    /\ auth_pc = "query"
    /\ res' \in QueryResults(UserQueryRows(db_users, session.user, dcb_remote, session.db))
    /\ auth_pc' = "resolve"
    /\ calls' = Append(calls, [step |-> "query", ok |-> res'.ok])
    /\ UNCHANGED <<session, dcb_remote, scramble, client_hostname, auth_rval, notAuth>>

\* Lines 465-476: the query by the address of the client.
ValidateQuery ==
    /\ auth_pc = "query"
    /\ res' \in QueryResults(UserQueryRows(db_users, session.user, dcb_remote, session.db))
    /\ auth_pc' = IF res'.ok THEN "matched" ELSE "resolve"
    /\ calls' = Append(calls, [step |-> "query", ok |-> res'.ok])
    /\ UNCHANGED <<session, dcb_remote, scramble, client_hostname, auth_rval, notAuth>>

\* wildcard_domain_match, lines 1822-1858: client_hostname is written only
\* when getnameinfo succeeds; after a failure it holds what the stack held.
wildcard_domain_match(ok) == IF ok THEN {ClientName} ELSE StackStrings

\* Lines 482-483: the host name of the client is looked up.
Resolve ==
    /\ auth_pc = "resolve"
    /\ \E ok \in BOOLEAN :
        /\ client_hostname' \in wildcard_domain_match(ok)
        /\ calls' = Append(calls, [step |-> "resolve", ok |-> ok])
    /\ auth_pc' = "retry"
    /\ UNCHANGED <<session, dcb_remote, scramble, res, auth_rval, notAuth>>

\* Lines 484-491: the query by the host name; without a row the client is
\* rejected (lines 494 and 512).
RetryQuery ==
    /\ auth_pc = "retry"
    /\ res' \in QueryResults(UserQueryRows(db_users, session.user, client_hostname, session.db))
    /\ auth_pc' = IF res'.ok THEN "matched" ELSE "done"
    /\ calls' = Append(calls, [step |-> "query", ok |-> res'.ok])
    /\ UNCHANGED <<session, dcb_remote, scramble, client_hostname, auth_rval, notAuth>>

\* Lines 497-502: a client that sent a token is marked as using a password.
MarkUsingPassword ==
    /\ auth_pc = "matched"
    /\ session' = IF Len(session.auth_token) # 0
                  THEN [session EXCEPT !.client_sha1[1] = 95]
                  ELSE session
    /\ auth_pc' = "password"
    /\ UNCHANGED <<dcb_remote, scramble, res, client_hostname, auth_rval, calls, notAuth>>

\* Lines 504-506: check_password, which writes session->client_sha1.
CheckPassword ==
    /\ auth_pc = "password"
    /\ \E junk \in StackBytes :
        LET r == check_password(res.output, session.auth_token, Len(session.auth_token),
                                scramble, [k \in Digest |-> junk])
        IN  /\ session' = [session EXCEPT !.client_sha1 = r.phase2_scramble]
            /\ auth_pc' = IF r.ok THEN "database" ELSE "done"
            /\ calls' = Append(calls, [step |-> "password", ok |-> r.ok])
    /\ UNCHANGED <<dcb_remote, scramble, res, client_hostname, auth_rval, notAuth>>

\* Lines 507-512: the password is right; the database must exist.
CheckDatabase ==
    /\ auth_pc = "database"
    /\ auth_rval' = check_database(db_databases, session.db)
    /\ calls' = Append(calls, [step |-> "database", ok |-> auth_rval'])
    /\ auth_pc' = "done"
    /\ UNCHANGED <<session, dcb_remote, scramble, res, client_hostname, notAuth>>

NextAuth ==
    \/ ValidateQuery
    \/ Resolve
    \/ RetryQuery
    \/ MarkUsingPassword
    \/ CheckPassword
    \/ CheckDatabase

SpecAuth == AuthInit /\ [][NextAuth]_vars

(* --------------------- check_password on its own ---------------------- *)

Password3 == <<112, 120, 33>>

Passwords == {Password1, Password2, Password3}

Scramble2 == [k \in Digest |-> (11 * k + 3) % 256]

Scrambles == {Scramble1, Scramble2}

\* The row of an account with this password, for any host and database.
AccountRow(password) ==
    UserRow(<<"a">>, <<"%">>, NULL, TRUE, <<"*">> \o gw_bin2hex(StoredHash(password)))

\* A client that knows one of the passwords answers the scramble of the
\* handshake; the users table holds the account with one of the passwords.
PasswordInit ==
    /\ LoaderInit
    /\ PermIdle
    /\ PersistIdle
    /\ QueryIdle
    /\ TableEmpty
    /\ users_from_all = FALSE
    /\ strip_db_esc = FALSE
    /\ db_users \in {{AccountRow(p)} : p \in Passwords}
    /\ db_databases \in {{}, {<<"d", "1">>}}
    /\ scramble \in Scrambles
    /\ session \in [user : {<<"a">>},
                    db : {EmptyStr, <<"d", "1">>},
                    auth_token : {ClientToken(q, scramble) : q \in Passwords},
                    client_sha1 : {Zeros}]
    /\ dcb_remote = <<"1">>
    /\ res = [ok |-> FALSE, output |-> EmptyStr]
    /\ client_hostname = EmptyStr
    /\ auth_pc = "query"
    /\ auth_rval = FALSE
    /\ calls = <<>>

NextPassword ==
    \/ ValidateQuery
    \/ MarkUsingPassword
    \/ CheckPassword
    \/ CheckDatabase

SpecPassword == PasswordInit /\ [][NextPassword]_vars

(* ------------------- the users hashtable and its keys ------------------ *)

Digits == <<"0", "1", "2", "3", "4", "5", "6", "7", "8", "9">>

isdigit(c) == \E n \in 1..10 : Digits[n] = c

DigitValue(c) == (CHOOSE n \in 1..10 : Digits[n] = c) - 1

\* strchr: the index of the first c in str at or after from, 0 for NULL.
strchr(str, from, c) ==
    IF \E k \in from..Len(str) : str[k] = c
    THEN CHOOSE k \in from..Len(str) : str[k] = c /\ \A j \in from..(k - 1) : str[j] # c
    ELSE 0

\* The character at index k of a C string; the terminating NUL is "".
CharAt(str, k) == IF k \in 1..Len(str) THEN str[k] ELSE ""

\* host_matches_singlechar_wildcard, lines 104-116.
RECURSIVE host_matches_singlechar_wildcard(_, _)
host_matches_singlechar_wildcard(user, wild) ==
    IF user = <<>> \/ wild = <<>> THEN TRUE
    ELSE IF Head(user) # Head(wild) /\ Head(wild) # "_" THEN FALSE
    ELSE host_matches_singlechar_wildcard(Tail(user), Tail(wild))

\* is_ipaddress, lines 182-193.
is_ipaddress(host) ==
    \A k \in 1..Len(host) : isdigit(host[k]) \/ host[k] \in {".", "_", "%"}

\* host_has_singlechar_wildcard with retval set to true at the start.
host_has_no_other_char(host) ==
    \A k \in 1..Len(host) : isdigit(host[k]) \/ host[k] \in {".", "_"}

\* host_has_singlechar_wildcard, lines 201-222.
host_has_singlechar_wildcard(host) ==
    /\ \A k \in 1..Len(host) : isdigit(host[k]) \/ host[k] \in {".", "_"}
    /\ \E k \in 1..Len(host) : host[k] = "_"

\* REG_ICASE: letters compare without case.
FoldCase(c) == IF c = "D" THEN "d" ELSE c

\* The pattern, with ".*" for each '%', matches at the start of str.
RECURSIVE RegexMatchHere(_, _)
RegexMatchHere(pattern, str) ==
    IF pattern = <<>> THEN TRUE
    ELSE IF Head(pattern) = "%"
         THEN \E k \in 0..Len(str) :
                 RegexMatchHere(Tail(pattern), SubSeq(str, k + 1, Len(str)))
         ELSE /\ str # <<>>
              /\ FoldCase(Head(str)) = FoldCase(Head(pattern))
              /\ RegexMatchHere(Tail(pattern), Tail(str))

\* regcomp and regexec of lines 785-790: the pattern is searched for
\* anywhere in str.
regexec(pattern, str) ==
    \E k \in 0..Len(str) : RegexMatchHere(pattern, SubSeq(str, k + 1, Len(str)))

\* The comparison of the resources without the test for the grant of any
\* database.
CompareResourceNoAnyDb(hu1, hu2) ==
    IF hu1.resource = NULL \/ hu1.resource = EmptyStr THEN 0
    ELSE IF hu2.resource = NULL THEN 1
    ELSE IF hu1.resource = hu2.resource THEN 0
    ELSE IF strchr(hu2.resource, 1, "%") # 0 /\ regexec(hu2.resource, hu1.resource) THEN 0
    ELSE 1

\* The comparison of the resources, lines 739-800, of uh_cmpfun.
CompareResource(hu1, hu2) ==
    IF hu1.resource = NULL \/ hu1.resource = EmptyStr THEN 0
    ELSE IF hu2.resource = NULL THEN 1
    ELSE IF hu2.resource = EmptyStr THEN 0
    ELSE IF hu1.resource = hu2.resource THEN 0
    ELSE IF strchr(hu2.resource, 1, "%") # 0 /\ regexec(hu2.resource, hu1.resource) THEN 0
    ELSE 1

\* The comparison of the users and the hosts, lines 730-737, of uh_cmpfun.
CompareHost(hu1, hu2) ==
    LET wildcard_host == Len(hu2.hostname) > 0 /\ Len(hu1.hostname) > 0
    IN  /\ hu1.user = hu2.user
        /\ \/ wildcard_host /\ host_matches_singlechar_wildcard(hu1.hostname, hu2.hostname)
           \/ /\ ~wildcard_host
              /\ hu1.ipv4 = hu2.ipv4
              /\ hu1.netmask >= hu2.netmask

\* uh_cmpfun, lines 711-806: 0 when the keys are taken as equal. hu1 is the
\* key looked for, hu2 the key of the table.
uh_cmpfun(hu1, hu2) ==
    IF CompareHost(hu1, hu2) THEN CompareResource(hu1, hu2) ELSE 1

(* -------------------------- the host of a key -------------------------- *)

MYSQL_HOST_MAXLEN == 60

\* strtok_r with the delimiter ".": the runs of characters between dots.
RECURSIVE Tokens(_)
Tokens(str) ==
    IF str = <<>> THEN <<>>
    ELSE IF Head(str) = "." THEN Tokens(Tail(str))
    ELSE LET d == strchr(str, 1, ".")
         IN  IF d = 0 THEN <<str>>
             ELSE <<SubSeq(str, 1, d - 1)>> \o Tokens(SubSeq(str, d + 1, Len(str)))

\* The loop of merge_netmask, lines 1772-1807: ip_loc and mask_loc
\* are the indices of ip_token_loc and mask_token_loc; the value is the host
\* the function leaves.
RECURSIVE MergeLoop(_, _, _, _)
MergeLoop(ip, ip_loc, mask, mask_loc) ==
    LET is255 == mask_loc + 2 <= Len(mask) /\ SubSeq(mask, mask_loc, mask_loc + 2) = <<"2", "5", "5">>
        zero == CharAt(mask, mask_loc) = "0" /\ CharAt(ip, ip_loc) = "0"
        merged == IF ~is255 /\ zero THEN [ip EXCEPT ![ip_loc] = "%"] ELSE ip
        ni == strchr(merged, ip_loc, ".")
        nj == strchr(mask, mask_loc, ".")
    IN  IF ~is255 /\ ~zero THEN ip \o <<"/">> \o mask
        ELSE IF ni # 0 /\ nj # 0 THEN MergeLoop(merged, ni + 1, mask, nj + 1)
        ELSE IF ni # 0 \/ nj # 0 THEN merged \o <<"/">> \o mask
        ELSE merged

\* merge_netmask, lines 1757-1808.
merge_netmask(host) ==
    LET d == strchr(host, 1, "/")
    IN  IF d = 0 THEN host
        ELSE MergeLoop(SubSeq(host, 1, d - 1), 1, SubSeq(host, d + 1, Len(host)), 1)

\* The loop of normalize_hostname over the tokens, lines 1025-1055.
RECURSIVE NormalizeLoop(_, _, _)
NormalizeLoop(toks, k, st) ==
    IF k > Len(toks) THEN st
    ELSE LET p == toks[k]
             dot == IF k < Len(toks) THEN <<".">> ELSE <<>>
         IN  IF p # <<"%">>
             THEN NormalizeLoop(toks, k + 1,
                     [st EXCEPT !.useorig = st.useorig \/ ~isdigit(p[1]),
                                !.output_host = st.output_host \o p \o dot,
                                !.bits = st.bits + 8,
                                !.bytes = st.bytes + 1])
             ELSE NormalizeLoop(toks, k + 1,
                     [st EXCEPT !.found_wildcard = TRUE,
                                !.output_host = st.output_host
                                    \o (IF st.bytes = 3 THEN <<"1">> ELSE <<"0">>) \o dot,
                                !.bytes = st.bytes + 1])

\* Lines 1059-1069: the octets added to a short host.
RECURSIVE PadHost(_, _)
PadHost(output_host, bytes) ==
    IF bytes >= 4 THEN output_host
    ELSE PadHost(output_host \o (IF bytes + 1 = 4 THEN <<".", "1">> ELSE <<".", "0">>),
                 bytes + 1)

\* normalize_hostname, lines 1005-1085, when its strdup succeeds: the
\* netmask returned and the string left in output_host.
normalize_hostname(input_host) ==
    LET st == NormalizeLoop(Tokens(merge_netmask(input_host)), 1,
                            [output_host |-> <<>>, bits |-> 0, bytes |-> 0,
                             found_wildcard |-> FALSE, useorig |-> FALSE])
    IN  IF st.useorig THEN [netmask |-> 32, output_host |-> input_host]
        ELSE IF st.found_wildcard
             THEN [netmask |-> st.bits, output_host |-> PadHost(st.output_host, st.bytes)]
             ELSE [netmask |-> 32, output_host |-> st.output_host]

RECURSIVE DecimalValue(_)
DecimalValue(tok) ==
    IF tok = <<>> THEN 0
    ELSE 10 * DecimalValue(SubSeq(tok, 1, Len(tok) - 1)) + DigitValue(tok[Len(tok)])

IsOctet(tok) ==
    /\ Len(tok) \in 1..3
    /\ \A k \in 1..Len(tok) : isdigit(tok[k])
    /\ DecimalValue(tok) <= 255

\* setipaddress (utils.c) for a string that no resolver knows as a name:
\* four octets with dots between them give the address, anything else
\* fails. s_addr holds the octets in network order, read here as the
\* integer of a little-endian machine: the first octet is the low byte.
setipaddress(host) ==
    LET toks == Tokens(host)
    IN  IF /\ Len(toks) = 4
           /\ \A k \in 1..4 : IsOctet(toks[k])
           /\ Len(host) = Len(toks[1]) + Len(toks[2]) + Len(toks[3]) + Len(toks[4]) + 3
        THEN [ok |-> TRUE,
              s_addr |-> DecimalValue(toks[1]) + 256 * DecimalValue(toks[2])
                         + 65536 * DecimalValue(toks[3]) + 16777216 * DecimalValue(toks[4])]
        ELSE [ok |-> FALSE, s_addr |-> 0]

\* hashtable_add (hashtable.c) with uh_cmpfun as the comparison: a key that
\* compares equal to a key of the table is not added.
hashtable_add(table, key) ==
    IF \E n \in 1..Len(table) : uh_cmpfun(key, table[n]) = 0 THEN 0 ELSE 1

\* Lines 263-287: key.resource from anydb and db.
KeyResource(anydb, db) ==
    IF anydb = NULL THEN NULL
    ELSE IF anydb = <<"N">> THEN db
    ELSE EmptyStr

\* Lines 289-315: ret_ip, key.netmask and key.hostname from the host.
\* strdup_ok: the strdup of normalize_hostname succeeds.
KeyHost(host, strdup_ok) ==
    IF host = <<"%">>
    THEN [ret_ip |-> <<"0", ".", "0", ".", "0", ".", "0">>, netmask |-> 0,
          hostname |-> EmptyStr]
    ELSE IF /\ Len(host) <= MYSQL_HOST_MAXLEN
            /\ is_ipaddress(host)
            /\ host_has_singlechar_wildcard(host)
    THEN [ret_ip |-> <<"0", ".", "0", ".", "0", ".", "0">>, netmask |-> 0,
          hostname |-> host]
    ELSE IF strdup_ok
    THEN [ret_ip |-> normalize_hostname(host).output_host,
          netmask |-> normalize_hostname(host).netmask,
          hostname |-> EmptyStr]
    ELSE [ret_ip |-> EmptyStr, netmask |-> -1, hostname |-> EmptyStr]

\* Line 328 without the mask: the address is kept as it was parsed.
KeyAddressUnmasked(s_addr, netmask) == s_addr

\* Lines 324-329: s_addr &= 0x00FFFFFF when the netmask is below 32.
KeyAddress(s_addr, netmask) ==
    IF netmask < 32 THEN s_addr % 16777216 ELSE s_addr

\* add_mysql_users_with_host_ipv4, lines 238-346: the value returned, the
\* key and the table afterwards.
add_mysql_users_with_host_ipv4(table, user, host, anydb, db, strdup_ok) ==
    LET kh == KeyHost(host, strdup_ok)
        addr == setipaddress(kh.ret_ip)
        key == [user |-> user,
                ipv4 |-> KeyAddress(addr.s_addr, kh.netmask),
                netmask |-> kh.netmask,
                hostname |-> kh.hostname,
                resource |-> KeyResource(anydb, db)]
    IN  IF addr.ok /\ Len(kh.ret_ip) # 0
        THEN IF hashtable_add(table, key) = 1
             THEN [ret |-> 1, ret_ip |-> kh.ret_ip, key |-> <<key>>,
                   table |-> Append(table, key)]
             ELSE [ret |-> -1, ret_ip |-> kh.ret_ip, key |-> <<key>>, table |-> table]
        ELSE [ret |-> 0, ret_ip |-> kh.ret_ip, key |-> <<>>, table |-> table]

(* ------------------ the hosts and the keys looked for ------------------ *)

RECURSIVE Dotted(_)
Dotted(toks) ==
    IF Len(toks) = 1 THEN toks[1] ELSE toks[1] \o <<".">> \o Dotted(Tail(toks))

Masked(addr, mask) == Dotted(addr) \o <<"/">> \o Dotted(mask)

T0 == <<"0">>

T01 == <<"0", "1">>

T1 == <<"1">>

T2 == <<"2">>

T3 == <<"3">>

T5 == <<"5">>

T9 == <<"9">>

T10 == <<"1", "0">>

T42 == <<"4", "2">>

T128 == <<"1", "2", "8">>

T168 == <<"1", "6", "8">>

T192 == <<"1", "9", "2">>

T255 == <<"2", "5", "5">>

T2551 == <<"2", "5", "5", "1">>

Pct == <<"%">>

\* Hosts of mysql.user that are an address or an address with '%' octets.
PrefixHosts ==
    {Pct,
     Dotted(<<T10, Pct>>),
     Dotted(<<T10, T1, Pct>>),
     Dotted(<<T10, Pct, Pct, Pct>>),
     Dotted(<<T10, T1, Pct, Pct>>),
     Dotted(<<T10, T1, T2, Pct>>),
     Dotted(<<T10, T1, T2, T3>>)}

\* Hosts with a netmask whose octets are 255 or 0 over zero octets.
MaskedHosts ==
    {Masked(<<T10, T1, T0, T0>>, <<T255, T255, T0, T0>>),
     Masked(<<T10, T1, T2, T0>>, <<T255, T255, T255, T0>>)}

\* Other hosts with a netmask: an octet of the mask that is neither 255
\* nor 0, an octet of the address that is not 0 under a 0, a short mask.
OtherMaskedHosts ==
    {Masked(<<T10, T1, T0, T0>>, <<T2551, T255, T0, T0>>),
     Masked(<<T10, T1, T0, T0>>, <<T255, T255, T128, T0>>),
     Masked(<<T10, T1, T0, T0>>, <<T255, T255, T01, T0>>),
     Masked(<<T10, T1, T5, T0>>, <<T255, T255, T0, T0>>),
     Masked(<<T10, T1, T0, T0>>, <<T255, T255, T0>>)}

\* Hosts with single-character wildcards.
SingleCharHosts == {Dotted(<<T192, T168, T1, <<"_">>>>)}

\* Hosts with a '%' before another octet, and with more than four octets.
OtherWildcardHosts ==
    {Dotted(<<T10, Pct, T1, Pct>>),
     Dotted(<<Pct, T1, T2, T3>>),
     Dotted(<<T10, T1, T2, T3, Pct>>)}

Hosts ==
    PrefixHosts \cup MaskedHosts \cup OtherMaskedHosts \cup SingleCharHosts
        \cup OtherWildcardHosts

\* select_priv and db of a row: no column, any database, no database, a
\* database, a pattern of databases.
Grants ==
    {[anydb |-> NULL, db |-> NULL],
     [anydb |-> <<"Y">>, db |-> NULL],
     [anydb |-> <<"N">>, db |-> NULL],
     [anydb |-> <<"N">>, db |-> <<"d", "1">>],
     [anydb |-> <<"N">>, db |-> <<"d", "%">>]}

\* The addresses of the clients.
ClientAddresses ==
    {Dotted(<<T10, T1, T2, T3>>),
     Dotted(<<T10, T1, T9, T9>>),
     Dotted(<<T192, T168, T1, T5>>),
     Dotted(<<T192, T168, T1, T42>>)}

\* The databases the clients ask for.
ClientDatabases ==
    {NULL, EmptyStr, <<"d", "1">>, <<"D", "1">>, <<"1">>, <<"1", "d">>}

\* The keys looked for in the table: the user, the address of the client
\* or 0.0.0.0, with or without the address as a string, and the database.
LookupKeys ==
    {[user |-> u, ipv4 |-> a, netmask |-> m, hostname |-> h, resource |-> r] :
        u \in {<<"a">>, <<"b">>},
        a \in {setipaddress(c).s_addr : c \in ClientAddresses} \cup {0},
        m \in {32, 0},
        h \in {EmptyStr, Dotted(<<T192, T168, T1, T5>>), Dotted(<<T192, T168, T1, T42>>)},
        r \in ClientDatabases}

\* The service loads a row of user a into the table; the table is
\* filled before keys are looked for in it.
AddUser ==
    /\ Len(users_data) < MaxKeys
    /\ last_cmp = <<>>
    /\ \E host \in Hosts, g \in Grants, strdup_ok \in BOOLEAN :
        LET r == add_mysql_users_with_host_ipv4(users_data, <<"a">>, host,
                                                g.anydb, g.db, strdup_ok)
        IN  /\ users_data' = r.table
            /\ last_add' = <<[host |-> host, ret |-> r.ret, ret_ip |-> r.ret_ip,
                               netmask |-> KeyHost(host, strdup_ok).netmask,
                               key |-> r.key]>>
    /\ UNCHANGED <<last_cmp, loaderVars, serviceVars, catalogVars, readerVars,
                   historyVars, authVars, queryVars, persistVars, permVars>>

\* A key is compared with a key of the table, as hashtable_fetch does
\* for mysql_users_fetch. The history keeps one comparison.
Compare ==
    /\ last_cmp = <<>>
    /\ \E hu1 \in LookupKeys, n \in 1..Len(users_data) :
        last_cmp' = <<[hu1 |-> hu1, hu2 |-> users_data[n],
                       rv |-> uh_cmpfun(hu1, users_data[n])]>>
    /\ UNCHANGED <<users_data, last_add, loaderVars, serviceVars, catalogVars,
                   readerVars, historyVars, authVars, queryVars, persistVars, permVars>>

TableInit ==
    /\ LoaderInit
    /\ PermIdle
    /\ PersistIdle
    /\ QueryIdle
    /\ AuthIdle
    /\ TableEmpty
    /\ users_from_all = FALSE
    /\ strip_db_esc = FALSE
    /\ db_users = {}
    /\ db_databases = {}

NextTable ==
    \/ AddUser
    \/ Compare

SpecTable == TableInit /\ [][NextTable]_vars

(* -------------------------- the grant query --------------------------- *)

\* A service with or without enable_root, and servers of one version.
QueryInit ==
    /\ LoaderInit
    /\ PermIdle
    /\ PersistIdle
    /\ AuthIdle
    /\ TableEmpty
    /\ users_from_all = FALSE
    /\ strip_db_esc = FALSE
    /\ db_users = {}
    /\ db_databases = {}
    /\ enable_root \in BOOLEAN
    /\ version_string \in ServerVersions
    /\ query = <<>>
    /\ grants = ResultSets

SpecQuery == QueryInit /\ [][NextLoader]_vars

(* --------------------------- persistence ------------------------------ *)

\* add_mysql_user, line 575: the anydb column of a row, "1" or "0".
AnyDbColumn(anydb) == IF anydb THEN <<"1">> ELSE <<"0">>

\* dump_user_cb, lines 1355-1360: the row add_mysql_user writes to the
\* destination for a row of the users table of the source.
dump_user_cb(row) ==
    UserRow(row.user, row.host, row.db,
            AnyDbColumn(row.anydb) # NULL /\ AnyDbColumn(row.anydb) # <<"1">>,
            row.password)

\* dump_database_cb, lines 1362-1367.
dump_database_cb(row) == row

\* Which calls of sqlite3_exec in transfer_table_contents succeed; insert
\* says whether the INSERTs into the destination do. They do when its
\* tables were created.
ExecOutcomes ==
    {f \in [create : BOOLEAN, insert : BOOLEAN, begin : BOOLEAN,
            users : BOOLEAN, databases : BOOLEAN, commit : BOOLEAN] :
        f.create => f.insert}

\* transfer_table_contents, lines 1369-1409. seen_users and seen_databases
\* are the rows the dump queries hand to their callbacks: every row when
\* the query succeeds, the rows before the error when it fails; the second
\* dump is not run when the first fails. A failed step sets rval to false
\* and the next steps still run. A destination that is closed with its
\* transaction open loses the rows written in it.
transfer_table_contents(src, dest, f, seen_users, seen_databases, dest_closed) ==
    LET written ==
            IF f.insert
            THEN [users |-> dest.users \cup {dump_user_cb(r) : r \in seen_users},
                  databases |-> dest.databases \cup
                      (IF f.users
                       THEN {dump_database_cb(r) : r \in seen_databases}
                       ELSE {})]
            ELSE dest
    IN  [rval |-> f.create /\ f.begin /\ f.users /\ f.databases /\ f.commit,
         dest |-> IF dest_closed /\ f.begin /\ ~f.commit THEN dest ELSE written]

\* The rows a dump query can hand over: all of them, or some when it fails.
Seen(rows, ok) == IF ok THEN {rows} ELSE SUBSET rows

\* dbusers_save, lines 1441-1455: -1, which is true as a bool, when the
\* persisted database cannot be opened.
dbusers_save(src, dest, opened, f, seen_users, seen_databases) ==
    IF ~opened
    THEN [rval |-> (-1 # 0), dest |-> dest]
    ELSE transfer_table_contents(src, dest, f, seen_users, seen_databases, TRUE)

\* dbusers_load, lines 1418-1432.
dbusers_load(dest, src, opened, f, seen_users, seen_databases) ==
    IF ~opened
    THEN [rval |-> FALSE, dest |-> dest]
    ELSE transfer_table_contents(src, dest, f, seen_users, seen_databases, FALSE)

\* A call of dbusers_save with the handle of the instance.
Save ==
    /\ \E opened \in BOOLEAN, f \in ExecOutcomes :
        \E seen_users \in Seen(db_users, f.users),
           seen_databases \in Seen(db_databases, f.databases) :
            LET r == dbusers_save(Catalog, file, opened, f, seen_users, seen_databases)
                failed == ~opened \/ \E step \in DOMAIN f : ~f[step]
            IN  /\ file' = r.dest
                /\ saved' = IF failed THEN <<>> ELSE <<Catalog>>
                /\ last_transfer' = <<[op |-> "save", rval |-> r.rval,
                                       failed |-> failed, before |-> Catalog]>>
    /\ UNCHANGED <<loaderVars, serviceVars, catalogVars, readerVars, historyVars,
                   authVars, tableVars, queryVars, permVars>>

\* A call of dbusers_load with the handle of the instance.
Load ==
    /\ \E opened \in BOOLEAN, f \in ExecOutcomes :
        \E seen_users \in Seen(file.users, f.users),
           seen_databases \in Seen(file.databases, f.databases) :
            LET r == dbusers_load(Catalog, file, opened, f, seen_users, seen_databases)
            IN  /\ db_users' = r.dest.users
                /\ db_databases' = r.dest.databases
                /\ last_transfer' = <<[op |-> "load", rval |-> r.rval,
                                       failed |-> ~opened \/ \E step \in DOMAIN f : ~f[step],
                                       before |-> Catalog]>>
    /\ UNCHANGED <<file, saved, loaderVars, serviceVars, listener_users, lock,
                   freed, readerVars, historyVars, authVars, tableVars, queryVars, permVars>>

\* The process starts again: the tables of the instance are empty as in
\* Init, the persisted database is as it was left.
Restart ==
    /\ db_users # {} \/ db_databases # {}
    /\ db_users' = {}
    /\ db_databases' = {}
    /\ last_transfer' = <<>>
    /\ UNCHANGED <<file, saved, loaderVars, serviceVars, listener_users, lock,
                   freed, readerVars, historyVars, authVars, tableVars, queryVars, permVars>>

\* The rows of the users table the loads of a run can leave.
PersistRows == {LoadedRow(RowAlice), LoadedRow(RowBob)}

\* The persisted database an earlier run saved from the row of b.
OldFile ==
    transfer_table_contents([users |-> {LoadedRow(RowBob)}, databases |-> {}],
                            NoCatalog,
                            [create |-> TRUE, insert |-> TRUE, begin |-> TRUE,
                             users |-> TRUE, databases |-> TRUE, commit |-> TRUE],
                            {LoadedRow(RowBob)}, {}, TRUE).dest

\* The instance after its loads, with no persisted database or with the
\* one of an earlier run that was not loaded.
PersistInit ==
    /\ LoaderInit
    /\ PermIdle
    /\ QueryIdle
    /\ AuthIdle
    /\ TableEmpty
    /\ users_from_all = FALSE
    /\ strip_db_esc = FALSE
    /\ db_users \in SUBSET PersistRows
    /\ db_databases \in {{}, {<<"d", "1">>}}
    /\ file \in {NoCatalog, OldFile}
    /\ saved = <<>>
    /\ last_transfer = <<>>

NextPersist ==
    \/ Save
    \/ Load
    \/ Restart

SpecPersist == PersistInit /\ [][NextPersist]_vars

(* ----------------------- check of the permissions --------------------- *)

\* How a statement sent with mysql_query ends: it succeeds, it fails with
\* ER_TABLEACCESS_DENIED_ERROR, or it fails with another error.
QueryOutcomes == {"ok", "denied", "error"}

\* What a server does during its check: gw_mysql_init gives a handle or
\* NULL; the connection is made, is refused with ER_ACCESS_DENIED_ERROR or
\* fails otherwise; the three SELECTs end each in one of the three ways.
ServerStates ==
    {e \in [init : BOOLEAN,
            connect : {"ok", "denied", "unreachable"},
            user : QueryOutcomes, db : QueryOutcomes, tables_priv : QueryOutcomes] :
        (~e.init \/ e.connect # "ok") =>
            (e.user = "ok" /\ e.db = "ok" /\ e.tables_priv = "ok"
             /\ (~e.init => e.connect = "ok"))}

\* check_server_permissions, lines 1565-1700.
check_server_permissions(e) ==
    IF ~e.init THEN FALSE
    ELSE IF e.connect # "ok" THEN e.connect # "denied"
    ELSE e.user # "denied"

\* check_service_permissions, lines 1714-1731: true at once for an internal
\* service, with skip_permission_checks or without servers; false without
\* the credentials of the service user.
CheckServiceBegin ==
    /\ perm_pc = "idle"
    /\ \E skip \in BOOLEAN, has_user \in BOOLEAN :
        /\ perm_skip' = skip
        /\ perm_rval' = skip
        /\ perm_pc' = IF skip \/ ~has_user THEN "done" ELSE "loop"
    /\ UNCHANGED <<perm_server, perm_checks, loaderVars, serviceVars, catalogVars,
                   readerVars, historyVars, authVars, tableVars, queryVars,
                   persistVars>>

\* One turn of the loop of lines 1733-1739.
CheckServer ==
    /\ perm_pc = "loop"
    /\ perm_server \in Servers
    /\ \E e \in ServerStates :
        /\ perm_rval' = (check_server_permissions(e) \/ perm_rval)
        /\ perm_checks' = Append(perm_checks,
                                 [server |-> e, ok |-> check_server_permissions(e)])
    /\ perm_server' = perm_server + 1
    /\ UNCHANGED <<perm_pc, perm_skip, loaderVars, serviceVars, catalogVars,
                   readerVars, historyVars, authVars, tableVars, queryVars,
                   persistVars>>

\* Lines 1741-1744: the loop has ended.
CheckServiceEnd ==
    /\ perm_pc = "loop"
    /\ perm_server \notin Servers
    /\ perm_pc' = "done"
    /\ UNCHANGED <<perm_skip, perm_server, perm_rval, perm_checks, loaderVars,
                   serviceVars, catalogVars, readerVars, historyVars, authVars,
                   tableVars, queryVars, persistVars>>

PermInit ==
    /\ LoaderInit
    /\ PermIdle
    /\ PersistIdle
    /\ QueryIdle
    /\ AuthIdle
    /\ TableEmpty
    /\ users_from_all = FALSE
    /\ strip_db_esc = FALSE
    /\ db_users = {}
    /\ db_databases = {}

NextPerm ==
    \/ CheckServiceBegin
    \/ CheckServer
    \/ CheckServiceEnd

SpecPerm == PermInit /\ [][NextPerm]_vars

(* ---------------------- grants with a wildcard ------------------------ *)

\* Servers whose grants hold a database wildcard, and servers whose grants
\* hold the anonymous user.
WildcardInit ==
    /\ LoaderInit
    /\ PermIdle
    /\ PersistIdle
    /\ AuthIdle
    /\ TableEmpty
    /\ users_from_all \in BOOLEAN
    /\ strip_db_esc \in BOOLEAN
    /\ db_users = {}
    /\ db_databases = {}
    /\ enable_root = FALSE
    /\ version_string = Version55
    /\ query = <<>>
    /\ grants \in {WildcardResultSets, AnonResultSets}

SpecWildcard == WildcardInit /\ [][NextLoader]_vars

(* ------------------------------ claims -------------------------------- *)

\* replace_mysql_users has returned.
Returned == pc = "idle" /\ refreshes > 0

\* get_users reached its loop over the servers in the last call.
LoopEntered ==
    /\ newusers # NoUsers
    /\ (outcomes # <<>> => outcomes[1].kind # "no credentials")

\* C1: a query that runs while the tables are reloaded sees the tables as
\* they were before the call or as they are after it, never a state between.
C1_LookupSeesBeforeOrAfter ==
    (Returned /\ obs # NoObs) => (obs[1] = cat_before \/ obs[1] = Catalog)

\* C2: after a load that failed (count <= 0) while listener->users was set,
\* every lookup has the answer it had before the call.
C2_FailedLoadKeepsCatalog ==
    (Returned /\ rval <= 0 /\ had_users) =>
        \A req \in Requests : Admits(Catalog, req) = Admits(cat_before, req)

\* C3: after successful loads only, every lookup is answered from the rows
\* and databases of the last load alone.
C3_FullReload ==
    (Returned /\ all_ok) =>
        \A req \in Requests : Admits(Catalog, req) = Admits(loaded, req)

\* The positions at which the thread talks to a backend server: connecting,
\* the grant query, SHOW DATABASES.
NetworkIO == {"connect", "query", "showdb"}

\* C4: the listener lock is not held while the loader talks to a backend.
C4_NoNetworkIOUnderLock == ~(lock /\ pc \in NetworkIO)

\* C5: a table an authenticating thread still holds has not been freed.
C5_HeldTableNotFreed == reader_users # NoUsers => reader_users \notin freed

\* C6: once svc_do_shutdown is set, the load writes no further row.
C6_ShutdownStopsInserts ==
    [][svc_do_shutdown => (db_users' = db_users /\ db_databases' = db_databases)]_vars

Last(seq) == seq[Len(seq)]

\* The servers were attempted in the order of service->dbref, each once.
InOrder == \A k \in 1..Len(outcomes) : outcomes[k].server = k

\* C7 (as amended): without users_from_all the servers are tried in order,
\* a server that cannot be reached does not end the iteration, and the
\* iteration ends at the first server that was connected to, whatever the
\* number of users it returned.
C7_StopsAtFirstConnected ==
    (pc = "got_users" /\ LoopEntered /\ ~users_from_all) =>
        /\ InOrder
        /\ \A k \in 1..(Len(outcomes) - 1) : outcomes[k].kind = "unreachable"
        /\ (~svc_do_shutdown /\ Len(outcomes) < NServers) =>
               (outcomes # <<>> /\ Last(outcomes).kind # "unreachable")

\* C7 (as claimed): the iteration ends only at a server that returned at
\* least one user; a server whose query failed or that returned no users
\* does not end it.
C7_StopsAtFirstWithUsers ==
    (/\ pc = "got_users" /\ LoopEntered /\ ~users_from_all /\ ~svc_do_shutdown
     /\ \A k \in 1..Len(outcomes) : outcomes[k].kind # "version") =>
        /\ InOrder
        /\ \A k \in 1..(Len(outcomes) - 1) : outcomes[k].users <= 0
        /\ Len(outcomes) < NServers =>
               (outcomes # <<>> /\ Last(outcomes).users > 0)

\* The iteration ended at a connected server that returned no users while
\* another server was left.
C7_Witness ==
    /\ pc = "got_users" /\ LoopEntered /\ ~users_from_all /\ ~svc_do_shutdown
    /\ outcomes # <<>>
    /\ Len(outcomes) < NServers
    /\ Last(outcomes).kind = "users"
    /\ Last(outcomes).users = 0

MaxOf(S) ==
    IF S = {} THEN -1
    ELSE LET x == CHOOSE y \in S : \A z \in S : z <= y IN x

Counts == {outcomes[k].users : k \in 1..Len(outcomes)}

\* The parts of C8 that do not depend on why a server gave no count.
C8_Common ==
    /\ Len(outcomes) = NServers
    /\ InOrder
    /\ rval = MaxOf(Counts \cup {-1})
    /\ (rval > 0) = (\E n \in Counts : n > 0)
    /\ rval > 0 => listener_users = newusers

C8_Case == Returned /\ LoopEntered /\ users_from_all /\ ~svc_do_shutdown

\* C8 (as amended): with users_from_all and no shutdown every server is
\* attempted, the value returned is the largest count of the servers, the
\* call succeeds (new table installed, count above 0) exactly when a server
\* returned a user, and the value is -1 only when no server returned a
\* count: each could not be reached or had no version string set.
C8_AllServersLargestCount ==
    C8_Case =>
        /\ C8_Common
        /\ rval = -1 =>
               \A k \in 1..Len(outcomes) : outcomes[k].kind \in {"unreachable", "version"}

\* C8 (as claimed): the value is -1 only when no server could be contacted.
C8_MinusOneOnlyUnreachable ==
    C8_Case =>
        /\ C8_Common
        /\ rval = -1 =>
               \A k \in 1..Len(outcomes) : outcomes[k].kind = "unreachable"

\* Every server was attempted, one of them was connected to and gave no
\* count, and the value returned is -1.
C8_Witness ==
    /\ C8_Case
    /\ rval = -1
    /\ Len(outcomes) = NServers
    /\ \E k \in 1..Len(outcomes) : outcomes[k].kind = "version"

\* validate_mysql_user has returned.
AuthDone == auth_pc = "done"

\* The steps validate_mysql_user took that are of this kind.
Steps(kind) == {k \in 1..Len(calls) : calls[k].step = kind}

\* The rows that match the request: by the address of the client or, when
\* none does, by the name the resolver gave for it.
RowsByAddress == UserQueryRows(db_users, session.user, dcb_remote, session.db)

RowsByName ==
    IF \E k \in Steps("resolve") : calls[k].ok
    THEN UserQueryRows(db_users, session.user, ClientName, session.db)
    ELSE {}

MatchedRows == IF RowsByAddress # {} THEN RowsByAddress ELSE RowsByName

\* C9: the client is admitted exactly when a row matches the request, the
\* password check against the hash of that row succeeds and the database is
\* empty or known; the database is checked only after the password check
\* has passed, and without a matching row no password is checked.
C9_AdmitsIffRowPasswordDatabase ==
    AuthDone =>
        /\ auth_rval =
               (/\ MatchedRows # {}
                /\ \E k \in Steps("password") : calls[k].ok
                /\ check_database(db_databases, session.db))
        /\ \A k \in Steps("database") : k > 1 /\ calls[k - 1] = [step |-> "password", ok |-> TRUE]
        /\ MatchedRows = {} => Steps("password") = {}

\* C10: after a failed password check the first byte of client_sha1 is set
\* exactly when the client sent a token.
C10_UsedPasswordIffToken ==
    (AuthDone /\ res.ok /\ \E k \in Steps("password") : ~calls[k].ok) =>
        (session.client_sha1[1] # 0) = (Len(session.auth_token) # 0)

\* check_password has returned.
PasswordChecked == Steps("password") # {}

PasswordOk == \E k \in Steps("password") : calls[k].ok

\* C11: for a scramble S and a password P, with SHA1(SHA1(P)) stored and the
\* token SHA1(Q) XOR SHA1(S, SHA1(SHA1(Q))) of a password Q, check_password
\* returns true exactly when Q = P, and for Q = P it writes SHA1(P) to the
\* phase 2 scramble.
C11_PasswordCheckRoundTrip ==
    PasswordChecked =>
        \A p, q \in Passwords :
            (/\ res.output = gw_bin2hex(StoredHash(p))
             /\ session.auth_token = ClientToken(q, scramble)) =>
                /\ PasswordOk = (p = q)
                /\ p = q => session.client_sha1 = gw_sha1_str(p)

\* The right token was checked against the stored hash and accepted, and
\* the phase 2 scramble is the SHA1 of the password.
C11_Witness ==
    /\ PasswordOk
    /\ \E p \in Passwords :
        /\ res.output = gw_bin2hex(StoredHash(p))
        /\ session.auth_token = ClientToken(p, scramble)
        /\ session.client_sha1 = gw_sha1_str(p)

\* C12: with an empty token the password check succeeds when the stored
\* hash is empty (an account without a password) and fails when it is not.
C12_EmptyTokenEdgeCases ==
    (PasswordChecked /\ session.auth_token = <<>>) =>
        PasswordOk = (res.output = EmptyStr)

\* uh_cmpfun was called on a key and a key of the table whose users and
\* hosts match.
HostsCompared == last_cmp # <<>> /\ CompareHost(last_cmp[1].hu1, last_cmp[1].hu2)

\* No database is asked for by the key.
NoDatabaseAsked(hu1) == hu1.resource = NULL \/ hu1.resource = EmptyStr

\* C13 (as claimed): a row whose user and host match admits every key
\* without a database; a key with a database it admits exactly when the
\* database of the row is the empty string or equal to that of the key, and
\* a row without a database denies.
C13_DatabaseExactOrGlobal ==
    HostsCompared =>
        LET hu1 == last_cmp[1].hu1
            hu2 == last_cmp[1].hu2
        IN  (last_cmp[1].rv = 0) =
                \/ NoDatabaseAsked(hu1)
                \/ /\ hu2.resource # NULL
                   /\ hu2.resource = EmptyStr \/ hu2.resource = hu1.resource

\* C13 (as amended): as above, and a row whose database holds a '%' also
\* admits a key whose database has a part that the pattern matches, with
\* any characters for each '%' and letters compared without case.
C13_DatabaseExactGlobalOrPattern ==
    HostsCompared =>
        LET hu1 == last_cmp[1].hu1
            hu2 == last_cmp[1].hu2
        IN  (last_cmp[1].rv = 0) =
                \/ NoDatabaseAsked(hu1)
                \/ /\ hu2.resource # NULL
                   /\ \/ hu2.resource = EmptyStr
                      \/ hu2.resource = hu1.resource
                      \/ /\ \E k \in 1..Len(hu2.resource) : hu2.resource[k] = "%"
                         /\ \E a, b \in 0..Len(hu1.resource) :
                                /\ a <= b
                                /\ RegexMatchHere(hu2.resource, SubSeq(hu1.resource, a + 1, b))

\* A key that asks for D1 is admitted by a row with the database d%.
C13_Witness ==
    /\ HostsCompared
    /\ last_cmp[1].hu1.resource = <<"D", "1">>
    /\ last_cmp[1].hu2.resource = <<"d", "%">>
    /\ last_cmp[1].rv = 0

\* The strings are equal but for the places where the pattern has '_'.
MatchesCharByChar(str, pattern) ==
    /\ Len(str) = Len(pattern)
    /\ \A k \in 1..Len(pattern) : pattern[k] = str[k] \/ pattern[k] = "_"

\* uh_cmpfun was called on a key and a row of the same user that both
\* carry a host string, the key without a database.
WildcardCompared ==
    /\ last_cmp # <<>>
    /\ last_cmp[1].hu1.user = last_cmp[1].hu2.user
    /\ last_cmp[1].hu1.hostname # EmptyStr
    /\ last_cmp[1].hu2.hostname # EmptyStr
    /\ NoDatabaseAsked(last_cmp[1].hu1)

\* C15: a host with '_' matches the address string of a client exactly
\* when both have the same length and every character is the same or is
\* '_' in the pattern.
C15_SingleCharSameLength ==
    WildcardCompared =>
        (last_cmp[1].rv = 0) =
            MatchesCharByChar(last_cmp[1].hu1.hostname, last_cmp[1].hu2.hostname)

\* The n-th octet, in network order, of an address.
Octet(s_addr, n) == (s_addr \div (256 ^ (n - 1))) % 256

\* A host that is an address or an address with '%' octets was added.
PrefixAdded ==
    /\ last_add # <<>>
    /\ last_add[1].host \in PrefixHosts
    /\ last_add[1].key # <<>>

\* C16: a key made from '%', a.%, a.b.%, a.b.%.%, a.b.c.% or a full address
\* has a netmask k of 0, 8, 16, 24 or 32, its first k bits are the octets
\* written in the host, and its other 32 - k bits are zero.
C16_LowBitsZero ==
    PrefixAdded =>
        LET key == last_add[1].key[1]
            toks == Tokens(last_add[1].host)
        IN  /\ key.netmask \in {0, 8, 16, 24, 32}
            /\ \A n \in 1..4 :
                   Octet(key.ipv4, n) =
                       IF 8 * n <= key.netmask THEN DecimalValue(toks[n]) ELSE 0

\* The key of 10.1.2.% is 10.1.2.0 with the netmask 24.
C16_Witness ==
    /\ PrefixAdded
    /\ last_add[1].host = Dotted(<<T10, T1, T2, Pct>>)
    /\ last_add[1].ret_ip = Dotted(<<T10, T1, T2, T1>>)
    /\ last_add[1].key[1].netmask = 24
    /\ last_add[1].key[1].ipv4 = 10 + 256 * 1 + 65536 * 2

\* The octets of the address and of the mask of a host a/m.
AddressOf(host) == Tokens(SubSeq(host, 1, strchr(host, 1, "/") - 1))

MaskOf(host) == Tokens(SubSeq(host, strchr(host, 1, "/") + 1, Len(host)))

\* Every octet of the mask is 255 or 0 and the address is 0 under each 0.
MaskIs255Or0(host) ==
    /\ Len(AddressOf(host)) = 4
    /\ Len(MaskOf(host)) = 4
    /\ \A k \in 1..4 :
        /\ MaskOf(host)[k] \in {T255, T0}
        /\ MaskOf(host)[k] = T0 => AddressOf(host)[k] = T0

\* The address with '%' for the octets under a 0 of the mask.
WithWildcards(host) ==
    Dotted([k \in 1..4 |-> IF MaskOf(host)[k] = T0 THEN Pct ELSE AddressOf(host)[k]])

\* A host with a netmask was given to add_mysql_users_with_host_ipv4.
MaskedAdded ==
    /\ last_add # <<>>
    /\ strchr(last_add[1].host, 1, "/") # 0
    /\ last_add[1].netmask # -1

\* C17: a host a/m whose mask octets are 255 or 0 over zero octets gets the
\* address and netmask of the same address with '%' in the masked octets;
\* for any other a/m the '/' stays in the host and no key is stored.
C17_NetmaskMergedOrRejected ==
    MaskedAdded =>
        IF MaskIs255Or0(last_add[1].host)
        THEN /\ last_add[1].ret_ip = KeyHost(WithWildcards(last_add[1].host), TRUE).ret_ip
             /\ last_add[1].netmask = KeyHost(WithWildcards(last_add[1].host), TRUE).netmask
             /\ last_add[1].ret # 0
        ELSE /\ strchr(last_add[1].ret_ip, 1, "/") # 0
             /\ last_add[1].key = <<>>

\* A host was made into an address and a netmask.
AddressMade ==
    /\ last_add # <<>>
    /\ last_add[1].netmask # -1
    /\ setipaddress(last_add[1].ret_ip).ok

C19_SingleCharRowOnlyByPattern ==
    (last_cmp # <<>> /\ last_cmp[1].hu2.hostname # EmptyStr) =>
        /\ last_cmp[1].hu2.hostname \in SingleCharHosts
        /\ last_cmp[1].hu2.ipv4 = 0
        /\ last_cmp[1].hu2.netmask = 0
        /\ last_cmp[1].rv = 0 =>
               /\ last_cmp[1].hu1.hostname # EmptyStr
               /\ MatchesCharByChar(last_cmp[1].hu1.hostname, last_cmp[1].hu2.hostname)

\* The n-th SELECT of the query is followed by the clause that leaves the
\* root user out.
ExcludesRoot(q, n) == q[4 * n] = "WHERE u.user NOT IN ('root')"

\* C20: the grant query has the clause WHERE u.user NOT IN ('root') after
\* both SELECTs of the UNION when enable_root is not set, and after neither
\* when enable_root is set.
C20_RootExcludedUnlessEnabled ==
    query # <<>> =>
        IF enable_root
        THEN ~ExcludesRoot(query[1], 1) /\ ~ExcludesRoot(query[1], 2)
        ELSE ExcludesRoot(query[1], 1) /\ ExcludesRoot(query[1], 2)

\* wildcard_db_grant, lines 1462-1477: the name holds a '%'.
wildcard_db_grant(str) == str # NULL /\ strchr(str, 1, "%") # 0

\* C21: the users table never holds a row whose database contains '%': a
\* grant on a database pattern is in the table only as one row for each
\* known database the pattern matches.
C21_WildcardsExpandedAtLoad ==
    \A r \in db_users :
        /\ ~wildcard_db_grant(r.db)
        /\ (r.user = RowCarol.user /\ r.db # NULL) => r.db \in db_databases

\* The last transfer was a dbusers_load that succeeded, into empty tables,
\* of the persisted database the last dbusers_save wrote.
RoundTrip ==
    /\ last_transfer # <<>>
    /\ last_transfer[1].op = "load"
    /\ last_transfer[1].rval
    /\ ~last_transfer[1].failed
    /\ last_transfer[1].before = NoCatalog
    /\ saved # <<>>

\* C22: the tables saved with dbusers_save and loaded with dbusers_load
\* into empty tables are the tables that were saved, row for row.
C22_SaveLoadRoundTrip ==
    RoundTrip => Catalog = saved[1]

\* C23: a dbusers_load of which a step failed returns false and leaves the
\* tables of the instance as they were.
C23_FailedLoadChangesNothing ==
    (/\ last_transfer # <<>>
     /\ last_transfer[1].op = "load"
     /\ last_transfer[1].failed) =>
        /\ ~last_transfer[1].rval
        /\ Catalog = last_transfer[1].before

\* C24: dbusers_save and dbusers_load return true only when the persisted
\* database was opened and every step of the transfer succeeded.
C24_TrueOnlyOnSuccess ==
    (last_transfer # <<>> /\ last_transfer[1].rval) => ~last_transfer[1].failed

\* The last call of replace_mysql_users loaded a row of the anonymous user.
AnonLoaded == \E r \in loaded.users : r.user = EmptyStr

\* C25: after a call of replace_mysql_users that loaded rows,
\* localhost_match_wildcard_host is 0 if a row of the anonymous user was
\* among them and 1 otherwise.
C25_FlagFollowsAnonymousUser ==
    (Returned /\ loaded.users # {}) =>
        localhost_match_wildcard_host = (IF AnonLoaded THEN 0 ELSE 1)

\* The statements of the check were sent to the server.
Queried(e) == e.init /\ e.connect = "ok"

\* The service user can read mysql.user on the server.
PermissionsCorrect(e) == Queried(e) /\ e.user = "ok"

\* The server could not be checked, or mysql.user could not be read.
MissingOrError(e) == ~Queried(e) \/ e.user # "ok"

\* C26: the check of a server fails when SELECT on mysql.user is denied and
\* not because SELECT on mysql.db or mysql.tables_priv is;
\* check_service_permissions returns true when the checks are skipped or
\* one server has the permissions, and false when on every server a
\* permission is missing or an error occurred.
C26_PermissionCheck ==
    /\ \A k \in 1..Len(perm_checks) :
        LET c == perm_checks[k] IN
        /\ (Queried(c.server) /\ c.server.user = "denied") => ~c.ok
        /\ PermissionsCorrect(c.server) => c.ok
    /\ perm_pc = "done" =>
        /\ perm_skip => perm_rval
        /\ (\E k \in 1..Len(perm_checks) : PermissionsCorrect(perm_checks[k].server))
               => perm_rval
        /\ (/\ ~perm_skip
            /\ \A k \in 1..Len(perm_checks) : MissingOrError(perm_checks[k].server))
               => ~perm_rval

UnderLock ==
    {"get_users", "loop", "connect", "version", "query", "rows", "flag",
     "showdb", "dbrows", "after_server", "got_users", "release"}

\* C28: replace_mysql_users holds the listener lock from its
\* spinlock_acquire to its one spinlock_release on each path and at no other
\* time, so it never returns with the lock held; after a call that took
\* the lock listener->users is set.
C28_LockReleasedOnEveryPath ==
    /\ lock = (pc \in UnderLock)
    /\ (pc = "idle" /\ newusers # NoUsers) => listener_users # NoUsers

\* A load failed while the listener had users: the call has returned, the
\* lock is free and the users are the old ones.
C28_Witness ==
    /\ Returned
    /\ rval <= 0
    /\ newusers # NoUsers
    /\ had_users
    /\ ~lock
    /\ listener_users # newusers

\* A key was stored for a host that is not a pattern with '_'.
Accepted ==
    /\ last_add # <<>>
    /\ last_add[1].ret = 1
    /\ last_add[1].key[1].hostname = EmptyStr

\* C29: the netmask of a stored key is 0, 8, 16, 24 or 32, and a netmask k
\* under 32 is stored only for a host whose octets after the first k / 8
\* are all '%'.
C29_NetmaskOnlyForTrailingWildcards ==
    Accepted =>
        LET k == last_add[1].key[1].netmask
            toks == Tokens(merge_netmask(last_add[1].host))
        IN  /\ k \in {0, 8, 16, 24, 32}
            /\ k < 32 => \A n \in ((k \div 8) + 1)..Len(toks) : toks[n] = Pct

====
